---- MODULE Spec2Model ----
(***************************************************************************)
(* A model of package gonull (src/gonull.go): the generic Nullable[T]      *)
(* wrapper, its sql.Scanner / json.Unmarshaler hooks and the coercion      *)
(* engine convertToType.                                                   *)
(*                                                                         *)
(* Go values are records [t, i, f, s, nil]:                                *)
(*   t    the dynamic type's name (a key of TypeInfo), "nil" for the       *)
(*        untyped nil interface;                                           *)
(*   h,i,f a number h * 2^62 + i + f/10: i is a small integer, f the       *)
(*        tenths digit (0 for integer kinds) and h counts multiples of     *)
(*        2^62, so that 2^63 - 1 is (h, i) = (2, -1) and 2^64 - 1 is       *)
(*        (4, -1); a bool is i = 1 (true) or i = 0 (false);                *)
(*   s    the bytes of a string or of a byte slice, in order;              *)
(*   nil  TRUE for a nil slice or a nil pointer.                           *)
(* A pointer carries its pointee's h, i, f, s; a customValuer{value, err}  *)
(* carries its value in s and i = 1 when err is not nil.                   *)
(* JSON tokens are records [j, i, f, s] with j the token's kind.           *)
(***************************************************************************)
EXTENDS Integers, Sequences, FiniteSets, TLC

VARIABLES
    T,        \* the type argument of the receiver, fixed at construction
    n,        \* the receiver: [Val, Valid, Present]
    prev,     \* the receiver as it was before the last call
    last,     \* the last call: [op, tok, val]
    err,      \* what the last call returned
    m,        \* a second receiver of the same T (SpecPair)
    errm,     \* what the last call returned on m (SpecPair)
    person,   \* a structure of Nullable fields (SpecDoc)
    doc,      \* the document last decoded into person (SpecDoc)
    out,      \* the last encoding of person (SpecDoc)
    docerr,   \* what the last document decode returned (SpecDoc)
    decodes,  \* number of documents decoded into person (SpecDoc)
    addressed, \* the fields whose hook some decode has called (SpecDoc)
    outz,     \* the last encoding of person, fields tagged omitzero (SpecDoc)
    res,      \* what the last observer returned on n (SpecObs)
    resm,     \* what the last observer returned on m (SpecObs)
    buf,      \* the bytes of the driver's buffer (SpecBuf)
    shared    \* n.Val is a slice of the driver's buffer (SpecBuf)

docvars == <<person, doc, out, docerr, decodes, addressed, outz>>
obsvars == <<res, resm>>
bufvars == <<buf, shared>>
vars == <<T, n, prev, last, err, m, errm, docvars, obsvars, bufvars>>

-----------------------------------------------------------------------------
(* Bounds *)

\* integers delivered by the driver or the decoder range over -MaxInt..MaxInt
MaxInt == 2
\* documents decoded into one structure
MaxDecodes == 2

-----------------------------------------------------------------------------
(* reflect.Kind, numbered as package reflect numbers it *)

Kind == [Invalid |-> 0, Bool |-> 1, Int |-> 2, Int8 |-> 3, Int16 |-> 4,
         Int32 |-> 5, Int64 |-> 6, Uint |-> 7, Uint8 |-> 8, Uint16 |-> 9,
         Uint32 |-> 10, Uint64 |-> 11, Uintptr |-> 12, Float32 |-> 13,
         Float64 |-> 14, Complex64 |-> 15, Complex128 |-> 16, Array |-> 17,
         Chan |-> 18, Func |-> 19, Interface |-> 20, Map |-> 21,
         Pointer |-> 22, Slice |-> 23, String |-> 24, Struct |-> 25]

\* A type of the model: kind, element kind (slices), bit width (numeric
\* kinds), whether *T implements sql.Scanner, whether T implements
\* driver.Valuer, and the pointee's type (pointers).  int and uint are 64
\* bits wide, as on the 64-bit platforms.
Ty(kind, elem, bits, scanner, valuer, to) ==
    [kind |-> kind, elem |-> elem, bits |-> bits, scanner |-> scanner,
     valuer |-> valuer, to |-> to]

Scalar(kind, bits) == Ty(kind, Kind.Invalid, bits, FALSE, FALSE, "")

TypeInfo ==
    [bool    |-> Scalar(Kind.Bool, 0),
     int     |-> Scalar(Kind.Int, 64),
     int8    |-> Scalar(Kind.Int8, 8),
     int16   |-> Scalar(Kind.Int16, 16),
     int32   |-> Scalar(Kind.Int32, 32),
     int64   |-> Scalar(Kind.Int64, 64),
     uint    |-> Scalar(Kind.Uint, 64),
     uint8   |-> Scalar(Kind.Uint8, 8),
     uint16  |-> Scalar(Kind.Uint16, 16),
     uint32  |-> Scalar(Kind.Uint32, 32),
     uint64  |-> Scalar(Kind.Uint64, 64),
     float32 |-> Scalar(Kind.Float32, 32),
     float64 |-> Scalar(Kind.Float64, 64),
     string  |-> Scalar(Kind.String, 0),
     Status  |-> Scalar(Kind.String, 0),
     bytes   |-> Ty(Kind.Slice, Kind.Uint8, 0, FALSE, FALSE, ""),
     int64s  |-> Ty(Kind.Slice, Kind.Int64, 0, FALSE, FALSE, ""),
     MyBool  |-> Scalar(Kind.Bool, 0),
     MyCustomFloat32 |-> Scalar(Kind.Float32, 32),
     ptr_int |-> Ty(Kind.Pointer, Kind.Invalid, 0, FALSE, FALSE, "int"),
     time    |-> Scalar(Kind.Struct, 0),
     emptyStruct |-> Scalar(Kind.Struct, 0),
     mapBoolBool |-> Scalar(Kind.Map, 0),
     customValuer |-> Ty(Kind.Struct, Kind.Invalid, 0, FALSE, TRUE, ""),
     testValuerScannerStruct |-> Ty(Kind.Struct, Kind.Invalid, 0, TRUE, TRUE, "")]

\* The type arguments the receiver is instantiated with.
TargetTypes == {"bool", "int8", "uint8", "uint64", "float32", "float64", "string", "Status",
                "MyBool", "MyCustomFloat32", "testValuerScannerStruct"}

-----------------------------------------------------------------------------
(* Go values *)

GoVal(t, i, f, s, isnil) ==
    [t |-> t, h |-> 0, i |-> i, f |-> f, s |-> s, nil |-> isnil]

\* the integer h * 2^62 + i of type t
BigV(t, h, i) == [t |-> t, h |-> h, i |-> i, f |-> 0, s |-> <<>>, nil |-> FALSE]

\* the untyped nil interface value
Nil == GoVal("nil", 0, 0, <<>>, TRUE)

IntV(t, i)   == GoVal(t, i, 0, <<>>, FALSE)
FloatV(i, f) == GoVal("float64", i, f, <<>>, FALSE)
BoolV(b)     == GoVal("bool", IF b THEN 1 ELSE 0, 0, <<>>, FALSE)
StrV(t, s)   == GoVal(t, 0, 0, s, FALSE)
BytesV(s)    == GoVal("bytes", 0, 0, s, FALSE)

\* byte strings used as inputs: "", "a", "1", "1.5", "1a", "error"
StrEmpty == <<>>
StrA     == <<97>>
StrOne   == <<49>>
StrOne5  == <<49, 46, 53>>
StrOneA  == <<49, 97>>
StrError == <<101, 114, 114, 111, 114>>
Texts    == {StrEmpty, StrA, StrOne, StrOne5, StrOneA, StrError}

\* zeroValue[T](): var zero T
zeroValue(t) ==
    GoVal(t, 0, 0, <<>>,
          TypeInfo[t].kind = Kind.Slice \/ TypeInfo[t].kind = Kind.Struct
              \/ TypeInfo[t].kind = Kind.Pointer \/ TypeInfo[t].kind = Kind.Map)

-----------------------------------------------------------------------------
(* Results and errors *)

NoError  == "nil"
ErrUnsupportedConversion == "unsupported type conversion"
ErrIntentional == "intentional error"
ErrScannerType == "unsupported type"
ErrJson  == "json: cannot unmarshal"
Panic    == "panic"

Res(v, e) == [val |-> v, err |-> e]

-----------------------------------------------------------------------------
(* Numeric conversion, as reflect.Value.Convert does it *)

MaxSigned(bits) == 2 ^ (bits - 1) - 1
MinSigned(bits) == 0 - 2 ^ (bits - 1)

\* a narrowing that keeps the nearest value of the target kind
WrapSigned_Clamp(x, bits) ==
    IF bits >= 32 THEN x
    ELSE IF x > MaxSigned(bits) THEN MaxSigned(bits)
    ELSE IF x < MinSigned(bits) THEN MinSigned(bits)
    ELSE x

\* two's-complement wrap of x to a signed integer of the given width; a kind
\* of 32 bits or more holds the small part of every integer of the model as
\* it is
WrapSigned(x, bits) ==
    IF bits >= 32 THEN x
    ELSE ((x + 2 ^ (bits - 1)) % (2 ^ bits)) - 2 ^ (bits - 1)

\* the integer part of i + f/10, rounded down
Trunc_Floor(i, f) == i

\* the integer part of i + f/10, rounded toward zero
Trunc(i, f) == IF i < 0 /\ f # 0 THEN i + 1 ELSE i

isFloatKind(kind) == kind = Kind.Float32 \/ kind = Kind.Float64

isUnsignedKind(kind) == kind >= Kind.Uint /\ kind <= Kind.Uintptr

\* comparisons of h * 2^62 + i with 0, 2^63 and -2^63 (i is small)
IsNegative(h, i)  == h < 0 \/ (h = 0 /\ i < 0)
AtLeast2p63(h, i) == h > 2 \/ (h = 2 /\ i >= 0)
Below2p63Neg(h, i) == h < -2 \/ (h = -2 /\ i < 0)

\* x modulo 2^bits, for the widths below 32; a 32-bit kind holds the small
\* non-negative part i of the model as it is
WrapUnsigned(x, bits) == IF bits >= 32 THEN x ELSE x % (2 ^ bits)

\* reflect.ValueOf(value).Convert(targetType) between numeric kinds:
\* float to float and integer to float keep the number (a float64 near 2^63
\* has no room for the small part), float to integer rounds toward zero,
\* integer to integer keeps the low bits of the two's-complement form
ConvertNumeric(value, t) ==
    LET tk   == TypeInfo[t].kind
        bits == TypeInfo[t].bits
        x    == Trunc(value.i, value.f)
    IN  IF isFloatKind(tk)
        THEN [GoVal(t, IF value.h # 0 THEN 0 ELSE value.i, value.f, <<>>, FALSE)
                 EXCEPT !.h = value.h]
        ELSE IF bits < 64
        THEN IF isUnsignedKind(tk) THEN GoVal(t, WrapUnsigned(x, bits), 0, <<>>, FALSE)
             ELSE GoVal(t, WrapSigned(x, bits), 0, <<>>, FALSE)
        ELSE IF isUnsignedKind(tk)
        THEN BigV(t, IF IsNegative(value.h, x) THEN value.h + 4 ELSE value.h, x)
        ELSE BigV(t, IF AtLeast2p63(value.h, x) THEN value.h - 4
                     ELSE IF Below2p63Neg(value.h, x) THEN value.h + 4
                     ELSE value.h, x)

\* reflect.ValueOf(value).Convert(targetType) from []byte to a string kind
ConvertBytesToString(value, t) == GoVal(t, 0, 0, value.s, FALSE)

-----------------------------------------------------------------------------
(* strconv.ParseFloat on the texts of the model: decimal digits with at most *)
(* one '.'; every other byte is a syntax error.  The value keeps the first   *)
(* fractional digit (the texts of the model carry no more).                  *)

IsDigits(s) == \A k \in 1..Len(s) : s[k] \in 48..57

RECURSIVE DecVal(_)
DecVal(s) ==
    IF s = <<>> THEN 0
    ELSE 10 * DecVal(SubSeq(s, 1, Len(s) - 1)) + (s[Len(s)] - 48)

DotPos(s) ==
    IF \E k \in 1..Len(s) : s[k] = 46
    THEN CHOOSE k \in 1..Len(s) : s[k] = 46 /\ \A j \in 1..(k - 1) : s[j] # 46
    ELSE Len(s) + 1

\* a parser that reads the leading digits and ignores what follows them
ParseFloat_Prefix(s) ==
    IF s # <<>> /\ s[1] \in 48..57
    THEN [ok |-> TRUE, i |-> s[1] - 48, f |-> 0]
    ELSE [ok |-> FALSE, i |-> 0, f |-> 0]

ParseFloat(s) ==
    LET p    == DotPos(s)
        intp == SubSeq(s, 1, p - 1)
        frac == SubSeq(s, p + 1, Len(s))
    IN  IF IsDigits(intp) /\ IsDigits(frac) /\ Len(intp) + Len(frac) > 0
        THEN [ok |-> TRUE, i |-> DecVal(intp),
              f |-> IF frac = <<>> THEN 0 ELSE frac[1] - 48]
        ELSE [ok |-> FALSE, i |-> 0, f |-> 0]

-----------------------------------------------------------------------------
(* convertToType[T](value), src/gonull.go *)

isNumeric(kind) == kind >= Kind.Int /\ kind <= Kind.Float64

\* a test for a slice that takes int8 for the element kind of []byte
isByteSlice_Int8Elem(t) == TypeInfo[t].kind = Kind.Slice /\ TypeInfo[t].elem = Kind.Int8

isByteSlice(t) == TypeInfo[t].kind = Kind.Slice /\ TypeInfo[t].elem = Kind.Uint8

\* the bytes-to-float branch after strconv.ParseFloat returned pf
FloatOfText(t, pf) ==
    IF ~pf.ok THEN Res(zeroValue(t), ErrUnsupportedConversion)
    \* .Interface().(T) aborts unless T is float32 / float64 itself
    ELSE IF TypeInfo[t].kind = Kind.Float32 /\ t # "float32" THEN Res(zeroValue(t), Panic)
    ELSE IF TypeInfo[t].kind = Kind.Float64 /\ t # "float64" THEN Res(zeroValue(t), Panic)
    ELSE Res(GoVal(t, pf.i, pf.f, <<>>, FALSE), NoError)

\* the numeric-to-bool branch taking every integer other than 0 as true
NumericToBool_NonZeroIsTrue(t, value) ==
    LET c == ConvertNumeric(value, "int")
    IN  IF t # "bool" THEN Res(zeroValue(t), Panic)
        ELSE Res(BoolV(c.h # 0 \/ c.i # 0), NoError)

\* the numeric-to-bool branch: val := int(Convert(value)); val < 0 || val > 1
\* is an error, otherwise val == 1
BoolOfInt(t, c) ==
    IF IsNegative(c.h, c.i) \/ c.h > 0 \/ c.i > 1
    THEN Res(zeroValue(t), ErrUnsupportedConversion)
    \* reflect.ValueOf(val == 1).Interface().(T) aborts unless T is bool
    ELSE IF t # "bool" THEN Res(zeroValue(t), Panic)
    ELSE Res(BoolV(c.i = 1), NoError)

NumericToBool(t, value) == BoolOfInt(t, ConvertNumeric(value, "int"))

convertToType(t, value) ==
    LET zero == zeroValue(t)
        vk   == TypeInfo[value.t].kind
        tk   == TypeInfo[t].kind
        isStringConvertible  == tk = Kind.String /\ isByteSlice(value.t)
        isNumericConvertible == isNumeric(vk) /\ isNumeric(tk)
    IN  IF value = Nil THEN Res(zero, NoError)
        ELSE IF value.t = t THEN Res(value, NoError)
        ELSE IF isStringConvertible THEN Res(ConvertBytesToString(value, t), NoError)
        ELSE IF isNumericConvertible THEN Res(ConvertNumeric(value, t), NoError)
        ELSE IF isNumeric(vk) /\ tk = Kind.Bool THEN NumericToBool(t, value)
        ELSE IF isFloatKind(tk) /\ isByteSlice(value.t)
        THEN IF value.s = <<>> THEN Res(zero, ErrUnsupportedConversion)
             ELSE FloatOfText(t, ParseFloat(value.s))
        ELSE Res(zero, ErrUnsupportedConversion)

\* none of convertToType's branches before its last statement applies to a
\* value that is not nil: not the same type, not bytes to a string kind, not
\* numeric to numeric, not numeric to bool, not bytes to a float kind
NoRule(t, value) ==
    LET vk == TypeInfo[value.t].kind
        tk == TypeInfo[t].kind
    IN  /\ value.t # t
        /\ ~(tk = Kind.String /\ isByteSlice(value.t))
        /\ ~(isNumeric(vk) /\ isNumeric(tk))
        /\ ~(isNumeric(vk) /\ tk = Kind.Bool)
        /\ ~(isFloatKind(tk) /\ isByteSlice(value.t))

-----------------------------------------------------------------------------
(* testValuerScannerStruct.Scan, the custom scanner of src/gonull_test.go:  *)
(* the struct's field b is the value's s (nil says b is a nil slice).       *)

ScannerScan(val, src) ==
    IF src = Nil THEN Res(val, NoError)
    ELSE IF src.t = "string" /\ src.s = StrError THEN Res(val, ErrIntentional)
    ELSE IF src.t = "string" THEN Res(GoVal(val.t, 0, 0, src.s, FALSE), NoError)
    ELSE IF src.t = "bytes" THEN Res(GoVal(val.t, 0, 0, src.s, src.nil), NoError)
    ELSE Res(val, ErrScannerType)

-----------------------------------------------------------------------------
(* JSON tokens, and json.Unmarshal(data, &value) of one token into a fresh  *)
(* value of type T, as Nullable.UnmarshalJSON calls it.                      *)

Tok(j, i, f, s) == [j |-> j, i |-> i, f |-> f, s |-> s]

TokNull    == Tok("null", 0, 0, <<>>)
TokNum(i, f) == Tok("number", i, f, <<>>)
TokStr(s)  == Tok("string", 0, 0, s)
TokBool(b) == Tok("bool", IF b THEN 1 ELSE 0, 0, <<>>)
TokObj     == Tok("object", 0, 0, <<>>)

\* the decoder's rule for a non-null token and a target of kind tk
JsonDecode(t, tok) ==
    LET tk   == TypeInfo[t].kind
        zero == zeroValue(t)
    IN  IF tk = Kind.Bool
        THEN IF tok.j = "bool" THEN Res(GoVal(t, tok.i, 0, <<>>, FALSE), NoError)
             ELSE Res(zero, ErrJson)
        ELSE IF isFloatKind(tk)
        THEN IF tok.j = "number" THEN Res(GoVal(t, tok.i, tok.f, <<>>, FALSE), NoError)
             ELSE Res(zero, ErrJson)
        ELSE IF isNumeric(tk)
        THEN IF tok.j = "number" /\ tok.f = 0
                /\ (IF isUnsignedKind(tk)
                    THEN tok.i >= 0 /\ (TypeInfo[t].bits >= 32
                                         \/ tok.i < 2 ^ TypeInfo[t].bits)
                    ELSE TypeInfo[t].bits >= 32
                         \/ (tok.i >= MinSigned(TypeInfo[t].bits)
                             /\ tok.i <= MaxSigned(TypeInfo[t].bits)))
             THEN Res(GoVal(t, tok.i, 0, <<>>, FALSE), NoError)
             ELSE Res(zero, ErrJson)
        ELSE IF tk = Kind.String
        THEN IF tok.j = "string" THEN Res(GoVal(t, 0, 0, tok.s, FALSE), NoError)
             ELSE Res(zero, ErrJson)
        ELSE IF tk = Kind.Struct
        THEN IF tok.j = "object" THEN Res(zero, NoError)
             ELSE Res(zero, ErrJson)
        ELSE Res(zero, ErrJson)

\* json.Marshal(n.Val): T's own encoding of a value
JsonEncode(val) ==
    LET tk == TypeInfo[val.t].kind
    IN  IF tk = Kind.Bool THEN Tok("bool", val.i, 0, <<>>)
        ELSE IF isNumeric(tk) THEN TokNum(val.i, val.f)
        ELSE IF tk = Kind.String THEN TokStr(val.s)
        ELSE TokObj

-----------------------------------------------------------------------------
(* Nullable[T] *)

Nullable(val, valid, present) == [Val |-> val, Valid |-> valid, Present |-> present]

\* var n Nullable[T]
DefaultNullable(t) == Nullable(zeroValue(t), FALSE, FALSE)

\* NewNullable as it was before the Present flag existed: Present is left unset
NewNullable_NoPresent(value) == Nullable(value, TRUE, FALSE)

\* NewNullable(value)
NewNullable(value) == Nullable(value, TRUE, TRUE)

Ret(nn, e) == [n |-> nn, err |-> e]

\* Scan asking T's custom scanner before looking for nil
ScanOp_ScannerFirst(nn, t, value) ==
    LET n1 == [nn EXCEPT !.Present = TRUE]
    IN  IF TypeInfo[t].scanner
        THEN LET r == ScannerScan(n1.Val, value)
             IN  IF r.err # NoError THEN Ret([n1 EXCEPT !.Val = r.val], r.err)
                 ELSE Ret([n1 EXCEPT !.Val = r.val, !.Valid = TRUE], NoError)
        ELSE IF value = Nil
        THEN Ret([n1 EXCEPT !.Val = zeroValue(t), !.Valid = FALSE], NoError)
        ELSE LET r == convertToType(t, value)
             IN  IF r.err = Panic THEN Ret(n1, Panic)
                 ELSE Ret([n1 EXCEPT !.Val = r.val, !.Valid = (r.err = NoError)], r.err)

\* Scan marking the receiver present only when the call succeeds
ScanOp_PresentOnSuccess(nn, t, value) ==
    IF value = Nil
    THEN Ret([nn EXCEPT !.Val = zeroValue(t), !.Valid = FALSE, !.Present = TRUE], NoError)
    ELSE IF TypeInfo[t].scanner
    THEN LET r == ScannerScan(nn.Val, value)
         IN  IF r.err # NoError THEN Ret([nn EXCEPT !.Val = r.val], r.err)
             ELSE Ret([nn EXCEPT !.Val = r.val, !.Valid = TRUE, !.Present = TRUE], NoError)
    ELSE LET r == convertToType(t, value)
         IN  IF r.err = Panic THEN Ret(nn, Panic)
             ELSE Ret([nn EXCEPT !.Val = r.val, !.Valid = (r.err = NoError),
                                 !.Present = (nn.Present \/ r.err = NoError)], r.err)

\* Scan setting Valid on success and never clearing it on a failed conversion
ScanOp_ValidOnlySet(nn, t, value) ==
    LET n1 == [nn EXCEPT !.Present = TRUE]
    IN  IF value = Nil
        THEN Ret([n1 EXCEPT !.Val = zeroValue(t), !.Valid = FALSE], NoError)
        ELSE IF TypeInfo[t].scanner
        THEN LET r == ScannerScan(n1.Val, value)
             IN  IF r.err # NoError THEN Ret([n1 EXCEPT !.Val = r.val], r.err)
                 ELSE Ret([n1 EXCEPT !.Val = r.val, !.Valid = TRUE], NoError)
        ELSE LET r == convertToType(t, value)
             IN  IF r.err = Panic THEN Ret(n1, Panic)
                 ELSE Ret([n1 EXCEPT !.Val = r.val,
                                     !.Valid = (n1.Valid \/ r.err = NoError)], r.err)

\* Scan after the custom scanner returned r: if err := scanner.Scan(value);
\* err != nil { return err }; n.Valid = true; return nil
ScanScanned(n1, r) ==
    IF r.err # NoError THEN Ret([n1 EXCEPT !.Val = r.val], r.err)
    ELSE Ret([n1 EXCEPT !.Val = r.val, !.Valid = TRUE], NoError)

\* Scan after convertToType returned r: n.Val, err = convertToType[T](value);
\* n.Valid = err == nil; return err
ScanConverted(n1, r) ==
    IF r.err = Panic THEN Ret(n1, Panic)
    ELSE Ret([n1 EXCEPT !.Val = r.val, !.Valid = (r.err = NoError)], r.err)

\* (n *Nullable[T]) Scan(value any) error
ScanOp(nn, t, value) ==
    LET n1 == [nn EXCEPT !.Present = TRUE]
    IN  IF value = Nil
        THEN Ret([n1 EXCEPT !.Val = zeroValue(t), !.Valid = FALSE], NoError)
        ELSE IF TypeInfo[t].scanner THEN ScanScanned(n1, ScannerScan(n1.Val, value))
        ELSE ScanConverted(n1, convertToType(t, value))

\* UnmarshalJSON without its first statement, n.Present = true
UnmarshalJSONOp_NoPresent(nn, t, tok) ==
    IF tok = TokNull
    THEN Ret([nn EXCEPT !.Valid = FALSE], NoError)
    ELSE LET r == JsonDecode(t, tok)
         IN  IF r.err # NoError THEN Ret(nn, r.err)
             ELSE Ret([nn EXCEPT !.Val = r.val, !.Valid = TRUE], NoError)

\* UnmarshalJSON marking the receiver present only for a decoded value
UnmarshalJSONOp_PresentOnValue(nn, t, tok) ==
    IF tok = TokNull
    THEN Ret([nn EXCEPT !.Valid = FALSE], NoError)
    ELSE LET r == JsonDecode(t, tok)
         IN  IF r.err # NoError THEN Ret(nn, r.err)
             ELSE Ret([nn EXCEPT !.Val = r.val, !.Valid = TRUE, !.Present = TRUE], NoError)

\* UnmarshalJSON without the test for the null literal: json.Unmarshal of
\* null leaves the fresh value of T as it is and returns nil
UnmarshalJSONOp_NoNullTest(nn, t, tok) ==
    LET n1 == [nn EXCEPT !.Present = TRUE]
        r  == IF tok = TokNull THEN Res(zeroValue(t), NoError) ELSE JsonDecode(t, tok)
    IN  IF r.err # NoError THEN Ret(n1, r.err)
        ELSE Ret([n1 EXCEPT !.Val = r.val, !.Valid = TRUE], NoError)

\* UnmarshalJSON after json.Unmarshal(data, &value) returned r: an error is
\* returned as it is, otherwise n.Val = value; n.Valid = true
UnmarshalDecoded(n1, r) ==
    IF r.err # NoError THEN Ret(n1, r.err)
    ELSE Ret([n1 EXCEPT !.Val = r.val, !.Valid = TRUE], NoError)

\* (n *Nullable[T]) UnmarshalJSON(data []byte) error
UnmarshalJSONOp(nn, t, tok) ==
    LET n1 == [nn EXCEPT !.Present = TRUE]
    IN  IF tok = TokNull
        THEN Ret([n1 EXCEPT !.Valid = FALSE], NoError)
        ELSE UnmarshalDecoded(n1, JsonDecode(t, tok))

\* MarshalJSON without the test of Valid
MarshalJSONOp_NoValidTest(nn) == JsonEncode(nn.Val)

\* MarshalJSON emitting null also for a receiver that is not marked present
MarshalJSONOp_PresentTest(nn) ==
    IF ~nn.Valid \/ ~nn.Present THEN TokNull ELSE JsonEncode(nn.Val)

\* (n Nullable[T]) MarshalJSON() ([]byte, error)
MarshalJSONOp(nn) == IF ~nn.Valid THEN TokNull ELSE JsonEncode(nn.Val)

-----------------------------------------------------------------------------
(* Value(), src/gonull.go: the driver value of a Nullable *)

ErrValuer            == "valuer error"
ErrTooLarge          == "is too large for int64"
ErrUnsupportedSlice  == "unsupported slice type"
ErrUnsupportedStruct == "unsupported struct type"
ErrUnsupportedType   == "unsupported type: %T"

\* T's own Value(): testValuerScannerStruct returns (t.b, nil), customValuer
\* returns (cv.value, cv.err)
ValuerValue(v) ==
    IF v.t = "testValuerScannerStruct"
    THEN Res(GoVal("bytes", 0, 0, v.s, v.nil), NoError)
    ELSE Res(IF v.nil THEN Nil ELSE StrV("string", v.s),
             IF v.i = 1 THEN ErrValuer ELSE NoError)

\* rv.Elem().Interface() of a pointer that is not nil
Elem(v) == [v EXCEPT !.t = TypeInfo[v.t].to]

\* the unsigned cases without the test against math.MaxInt64: int64(u) of a
\* value at or above 2^63 is the value less 2^64
UintToInt64_Wrap(v) ==
    Res(BigV("int64", IF AtLeast2p63(v.h, v.i) THEN v.h - 4 ELSE v.h, v.i), NoError)

\* the unsigned cases: u := rv.Uint(); u > math.MaxInt64 is an error,
\* otherwise int64(u)
UintToInt64(v) ==
    IF AtLeast2p63(v.h, v.i) THEN Res(Nil, ErrTooLarge)
    ELSE Res(BigV("int64", v.h, v.i), NoError)

\* a conversion without the pointer case: a pointer, nil or not, is one of
\* the unsupported types
convertToDriverValue_NoPointerCase(v) ==
    LET k == TypeInfo[v.t].kind
    IN  IF TypeInfo[v.t].valuer THEN ValuerValue(v)
        ELSE IF k >= Kind.Int /\ k <= Kind.Int64
        THEN Res(BigV("int64", v.h, v.i), NoError)
        ELSE IF k >= Kind.Uint /\ k <= Kind.Uint64 THEN UintToInt64(v)
        ELSE IF isFloatKind(k)
        THEN Res([GoVal("float64", v.i, v.f, <<>>, FALSE) EXCEPT !.h = v.h], NoError)
        ELSE IF k = Kind.Bool THEN Res(BoolV(v.i = 1), NoError)
        ELSE IF k = Kind.Slice
        THEN IF TypeInfo[v.t].elem = Kind.Uint8
             THEN Res(GoVal("bytes", 0, 0, v.s, v.nil), NoError)
             ELSE Res(Nil, ErrUnsupportedSlice)
        ELSE IF k = Kind.String THEN Res(StrV("string", v.s), NoError)
        ELSE IF k = Kind.Struct
        THEN IF v.t = "time" THEN Res(v, NoError)
             ELSE Res(Nil, ErrUnsupportedStruct)
        ELSE Res(Nil, ErrUnsupportedType)

RECURSIVE convertToDriverValue(_)
convertToDriverValue(v) ==
    LET k == TypeInfo[v.t].kind
    IN  IF TypeInfo[v.t].valuer THEN ValuerValue(v)
        ELSE IF k = Kind.Pointer
        THEN IF v.nil THEN Res(Nil, NoError) ELSE convertToDriverValue(Elem(v))
        ELSE IF k >= Kind.Int /\ k <= Kind.Int64
        THEN Res(BigV("int64", v.h, v.i), NoError)
        ELSE IF k >= Kind.Uint /\ k <= Kind.Uint64 THEN UintToInt64(v)
        ELSE IF isFloatKind(k)
        THEN Res([GoVal("float64", v.i, v.f, <<>>, FALSE) EXCEPT !.h = v.h], NoError)
        ELSE IF k = Kind.Bool THEN Res(BoolV(v.i = 1), NoError)
        ELSE IF k = Kind.Slice
        THEN IF TypeInfo[v.t].elem = Kind.Uint8
             THEN Res(GoVal("bytes", 0, 0, v.s, v.nil), NoError)
             ELSE Res(Nil, ErrUnsupportedSlice)
        ELSE IF k = Kind.String THEN Res(StrV("string", v.s), NoError)
        ELSE IF k = Kind.Struct
        THEN IF v.t = "time" THEN Res(v, NoError)
             ELSE Res(Nil, ErrUnsupportedStruct)
        ELSE Res(Nil, ErrUnsupportedType)

\* Value reporting a failure of T's valuer as the shared conversion error
ValueOp_WrapsValuerError(nn) ==
    IF ~nn.Valid THEN Res(Nil, NoError)
    ELSE IF TypeInfo[nn.Val.t].valuer /\ ValuerValue(nn.Val).err # NoError
    THEN Res(Nil, ErrUnsupportedConversion)
    ELSE convertToDriverValue(nn.Val)

\* Value asking T's valuer before it looks at Valid
ValueOp_ValuerFirst(nn) ==
    IF TypeInfo[nn.Val.t].valuer THEN ValuerValue(nn.Val)
    ELSE IF ~nn.Valid THEN Res(Nil, NoError)
    ELSE convertToDriverValue(nn.Val)

\* (n Nullable[T]) Value() (driver.Value, error)
ValueOp(nn) ==
    IF ~nn.Valid THEN Res(Nil, NoError)
    ELSE IF TypeInfo[nn.Val.t].valuer THEN ValuerValue(nn.Val)
    ELSE convertToDriverValue(nn.Val)

\* OrElse falling back to the default whenever the stored Val is T's zero
\* value
OrElseOp_ZeroTest(nn, defaultVal) ==
    IF nn.Val # zeroValue(nn.Val.t) THEN nn.Val ELSE defaultVal

\* (n Nullable[T]) OrElse(defaultVal T) T
OrElseOp(nn, defaultVal) == IF nn.Valid THEN nn.Val ELSE defaultVal

\* IsZero reporting an unset value as zero
IsZeroOp_NotValid(nn) == ~nn.Valid

\* (n Nullable[T]) IsZero() bool
IsZeroOp(nn) == ~nn.Present

-----------------------------------------------------------------------------
(* What an observer returns: a token (MarshalJSON), a driver value and an   *)
(* error (Value), a boolean (IsZero).                                       *)

Obs(tok, val, e, b) == [tok |-> tok, val |-> val, err |-> e, b |-> b]

NoObs == Obs(TokNull, Nil, NoError, FALSE)

\* what Value() returned, a pair (driver.Value, error)
ObsOfValue(r) == Obs(TokNull, r.val, r.err, FALSE)

IdleObs == res = NoObs /\ resm = NoObs

\* no driver buffer is followed
IdleBuf == buf = <<>> /\ shared = FALSE

-----------------------------------------------------------------------------
(* Inputs *)

\* integers of the driver: a small range, and the nearest values that do not
\* fit in 8 bits
IntInputs == (-MaxInt..MaxInt) \cup {MaxSigned(8) + 1, MinSigned(8) - 1}

\* integers of other kinds and at the ends of the 64-bit ranges:
\* math.MaxInt64, math.MinInt64, uint64(1 << 63), math.MaxUint64
BigInputs ==
    {BigV("int64", 2, -1), BigV("int64", -2, 0)}
    \cup {IntV("int8", -1), IntV("int8", 1), IntV("uint8", 0), IntV("uint8", 2 ^ 8 - 1)}
    \cup {IntV("uint64", 1), BigV("uint64", 2, 0), BigV("uint64", 4, -1)}

\* what database/sql hands to Scan
ScanInputs ==
    {Nil}
    \cup {IntV("int64", i) : i \in IntInputs}
    \cup BigInputs
    \cup {FloatV(0, 5), FloatV(1, 5), FloatV(-1, 5)}
    \cup {StrV("string", s) : s \in Texts}
    \cup {BytesV(s) : s \in Texts}
    \cup {BoolV(TRUE), BoolV(FALSE)}
    \cup {GoVal("int64s", 0, 0, <<>>, FALSE)}

\* the tokens encoding/json hands to UnmarshalJSON
JsonInputs ==
    {TokNull, TokObj, TokBool(TRUE), TokBool(FALSE), TokNum(1, 5)}
    \cup {TokNum(i, 0) : i \in IntInputs}
    \cup {TokStr(s) : s \in {StrEmpty, StrA}}

\* the values a caller passes to NewNullable[T]
NewValues(t) ==
    LET tk == TypeInfo[t].kind
    IN  IF tk = Kind.Bool THEN {GoVal(t, 0, 0, <<>>, FALSE), GoVal(t, 1, 0, <<>>, FALSE)}
        ELSE IF isFloatKind(tk) THEN {GoVal(t, 0, 0, <<>>, FALSE), GoVal(t, 1, 5, <<>>, FALSE)}
        ELSE IF isUnsignedKind(tk) THEN {GoVal(t, i, 0, <<>>, FALSE) : i \in 0..MaxInt}
        ELSE IF isNumeric(tk) THEN {GoVal(t, i, 0, <<>>, FALSE) : i \in -MaxInt..MaxInt}
        ELSE IF tk = Kind.String THEN {GoVal(t, 0, 0, s, FALSE) : s \in {StrEmpty, StrA}}
        ELSE {zeroValue(t), GoVal(t, 0, 0, StrA, FALSE)}

Call(op, tok, val) == [op |-> op, tok |-> tok, val |-> val]

-----------------------------------------------------------------------------
(* A structure of Nullable fields decoded from and encoded to a document    *)
(* by encoding/json, as in Example (src/unnamed/part_000) and TestPresent.  *)

Fields == <<"age", "address", "has_pet">>
FieldSet == {Fields[k] : k \in 1..Len(Fields)}
FieldType == [age |-> "int", address |-> "string", has_pet |-> "bool"]

\* the key is not in the document
Missing == Tok("missing", 0, 0, <<>>)

FieldTokens ==
    [age     |-> {Missing, TokNull, TokNum(0, 0), TokNum(MaxInt, 0), TokStr(StrA)},
     address |-> {Missing, TokNull, TokStr(StrEmpty), TokStr(StrA), TokNum(1, 0)},
     has_pet |-> {Missing, TokNull, TokBool(FALSE), TokBool(TRUE)}]

Documents == {d \in [FieldSet -> UNION {FieldTokens[f] : f \in FieldSet}] :
                 \A f \in FieldSet : d[f] \in FieldTokens[f]}

\* var person Person
DefaultPerson == [f \in FieldSet |-> DefaultNullable(FieldType[f])]

NoDoc == [f \in FieldSet |-> Missing]
NoOut == [f \in FieldSet |-> Missing]

\* json.Unmarshal(jsonData, &person): the keys of the document in order; the
\* hook of a field is called iff its key is there, and the first error ends
\* the decode.
RECURSIVE DecodeFrom(_, _, _)
\* the hook of field f = Fields[k] returned r
DecodeField(p, d, k, f, r) ==
    IF r.err # NoError
    THEN [person |-> [p EXCEPT ![f] = r.n], err |-> r.err]
    ELSE DecodeFrom([p EXCEPT ![f] = r.n], d, k + 1)

DecodeFrom(p, d, k) ==
    IF k > Len(Fields) THEN [person |-> p, err |-> NoError]
    ELSE IF d[Fields[k]] = Missing THEN DecodeFrom(p, d, k + 1)
    ELSE DecodeField(p, d, k, Fields[k],
                     UnmarshalJSONOp(p[Fields[k]], FieldType[Fields[k]], d[Fields[k]]))

DecodeDoc(p, d) == DecodeFrom(p, d, 1)

\* the fields whose hook the decode of d calls: the keys of d up to the first
\* one whose token T's decoder refuses
Reached(d) ==
    {Fields[k] : k \in {k \in 1..Len(Fields) :
        /\ d[Fields[k]] # Missing
        /\ \A j \in 1..(k - 1) :
              \/ d[Fields[j]] \in {Missing, TokNull}
              \/ JsonDecode(FieldType[Fields[j]], d[Fields[j]]).err = NoError}}

\* json.Marshal(person), no field tagged omitzero: every field is emitted
EncodeDoc(p) == [f \in FieldSet |-> MarshalJSONOp(p[f])]

\* json.Marshal(person), every field tagged omitzero (Go 1.24): a field whose
\* IsZero() reports true is left out
EncodeDocOmitZero(p) ==
    [f \in FieldSet |-> IF IsZeroOp(p[f]) THEN Missing ELSE MarshalJSONOp(p[f])]

\* no omitzero encoding taken
NoOutz == [f \in FieldSet |-> Tok("none", 0, 0, <<>>)]

-----------------------------------------------------------------------------
(* Spec: one receiver, constructed and then scanned / decoded into *)

IdleDoc ==
    /\ person = DefaultPerson
    /\ doc = NoDoc
    /\ out = NoOut
    /\ docerr = NoError
    /\ decodes = 0
    /\ addressed = {}
    /\ outz = NoOutz

\* the call on n returned r: the receiver afterwards and the error
Returns(r) == n' = r.n /\ err' = r.err

\* the same call on m returned r
ReturnsOnSecond(r) == m' = r.n /\ errm' = r.err

\* json.Unmarshal(d, &person) returned r
DocReturns(r) == person' = r.person /\ docerr' = r.err

Init ==
    /\ T \in TargetTypes
    /\ n = DefaultNullable(T)
    /\ prev = n
    /\ last = Call("init", TokNull, Nil)
    /\ err = NoError
    /\ m = n
    /\ errm = NoError
    /\ IdleDoc
    /\ IdleObs
    /\ IdleBuf

\* n := NewNullable(value), in place of the default construction
New(value) ==
    /\ last.op = "init"
    /\ n' = NewNullable(value)
    /\ prev' = n
    /\ last' = Call("NewNullable", TokNull, value)
    /\ err' = NoError
    /\ UNCHANGED <<T, bufvars, m, errm, docvars, obsvars>>

\* err := n.Scan(value)
Scan(value) ==
    /\ Returns(ScanOp(n, T, value))
    /\ prev' = n
    /\ last' = Call("Scan", TokNull, value)
    /\ UNCHANGED <<T, bufvars, m, errm, docvars, obsvars>>

\* err := n.UnmarshalJSON(data)
UnmarshalJSON(tok) ==
    /\ Returns(UnmarshalJSONOp(n, T, tok))
    /\ prev' = n
    /\ last' = Call("UnmarshalJSON", tok, Nil)
    /\ UNCHANGED <<T, bufvars, m, errm, docvars, obsvars>>

Next ==
    \/ \E v \in NewValues(T) : New(v)
    \/ \E x \in ScanInputs : Scan(x)
    \/ \E tok \in JsonInputs : UnmarshalJSON(tok)

Spec == Init /\ [][Next]_vars

-----------------------------------------------------------------------------
(* SpecPair: two receivers of one type, in any two start states, given the  *)
(* same calls                                                                *)

StartStates(t) == {DefaultNullable(t)} \cup {NewNullable(v) : v \in NewValues(t)}

InitPair ==
    /\ T \in TargetTypes
    /\ n \in StartStates(T)
    /\ m \in StartStates(T)
    /\ prev = n
    /\ last = Call("init", TokNull, Nil)
    /\ err = NoError
    /\ errm = NoError
    /\ IdleDoc
    /\ IdleObs
    /\ IdleBuf

PairScan(value) ==
    /\ Returns(ScanOp(n, T, value))
    /\ ReturnsOnSecond(ScanOp(m, T, value))
    /\ prev' = n
    /\ last' = Call("Scan", TokNull, value)
    /\ UNCHANGED <<T, bufvars, docvars, obsvars>>

PairUnmarshalJSON(tok) ==
    /\ Returns(UnmarshalJSONOp(n, T, tok))
    /\ ReturnsOnSecond(UnmarshalJSONOp(m, T, tok))
    /\ prev' = n
    /\ last' = Call("UnmarshalJSON", tok, Nil)
    /\ UNCHANGED <<T, bufvars, docvars, obsvars>>

NextPair ==
    \/ \E x \in ScanInputs : PairScan(x)
    \/ \E tok \in JsonInputs : PairUnmarshalJSON(tok)

SpecPair == InitPair /\ [][NextPair]_vars

-----------------------------------------------------------------------------
(* SpecDoc: documents decoded into one structure, and the structure encoded *)

InitDoc ==
    /\ T = "int"
    /\ n = DefaultNullable(T)
    /\ prev = n
    /\ last = Call("init", TokNull, Nil)
    /\ err = NoError
    /\ m = n
    /\ errm = NoError
    /\ IdleDoc
    /\ IdleObs
    /\ IdleBuf

\* err := json.Unmarshal(d, &person)
Decode(d) ==
    /\ decodes < MaxDecodes
    /\ DocReturns(DecodeDoc(person, d))
    /\ doc' = d
    /\ decodes' = decodes + 1
    /\ addressed' = addressed \cup Reached(d)
    /\ out' = NoOut
    /\ outz' = NoOutz
    /\ UNCHANGED <<T, bufvars, n, prev, last, err, m, errm, obsvars>>

\* out := json.Marshal(person)
Encode ==
    /\ out' = EncodeDoc(person)
    /\ UNCHANGED <<T, bufvars, n, prev, last, err, m, errm, person, doc, docerr, decodes,
                   addressed, outz, obsvars>>

\* outz := json.Marshal(person), the fields tagged omitzero
EncodeOmitZero ==
    /\ outz' = EncodeDocOmitZero(person)
    /\ UNCHANGED <<T, bufvars, n, prev, last, err, m, errm, person, doc, docerr, decodes,
                   addressed, out, obsvars>>

NextDoc ==
    \/ \E d \in Documents : Decode(d)
    \/ Encode
    \/ EncodeOmitZero

SpecDoc == InitDoc /\ [][NextDoc]_vars

-----------------------------------------------------------------------------
(* SpecObs: the observers MarshalJSON, IsZero and Value applied to every    *)
(* Nullable a struct literal can build (the three fields are exported, as   *)
(* in Nullable[T]{Val: v, Valid: false} of TestNullableValue), and to its   *)
(* twin m that differs in Present only.                                     *)

\* the types encoding/json encodes and decodes in this model
JsonTypes == {"bool", "int", "int8", "float64", "string", "Status", "MyBool",
              "MyCustomFloat32", "testValuerScannerStruct"}

ObsTypes == DOMAIN TypeInfo

\* the values of type t a literal stores in Val: the zero value, small
\* values, and for the integer kinds the ends of the range (the largest
\* uint32 of the model is 2^31 - 1)
ObsValues(t) ==
    LET k    == TypeInfo[t].kind
        bits == TypeInfo[t].bits
        some == GoVal(t, 0, 0, <<>>, FALSE)
    IN  {zeroValue(t)} \cup
        IF k = Kind.Pointer THEN {some, GoVal(t, 1, 0, <<>>, FALSE)}
        ELSE IF k = Kind.Map THEN {some}
        ELSE IF k = Kind.Slice
        THEN {some} \cup (IF isByteSlice(t) THEN {GoVal(t, 0, 0, StrA, FALSE)} ELSE {})
        ELSE IF t = "customValuer"
        THEN {GoVal(t, 0, 0, StrA, FALSE), GoVal(t, 1, 0, <<>>, TRUE)}
        ELSE IF t = "time" THEN {GoVal(t, 1, 0, <<>>, FALSE)}
        ELSE IF t = "emptyStruct" THEN {}
        ELSE IF isUnsignedKind(k)
        THEN {GoVal(t, 1, 0, <<>>, FALSE)} \cup
             (IF bits = 64
              THEN {BigV(t, 1, 0), BigV(t, 2, -1), BigV(t, 2, 0), BigV(t, 4, -1)}
              ELSE IF bits = 32 THEN {GoVal(t, 2147483647, 0, <<>>, FALSE)}
              ELSE {GoVal(t, 2 ^ bits - 1, 0, <<>>, FALSE)})
        ELSE IF isNumeric(k) /\ ~isFloatKind(k) /\ bits = 64
        THEN NewValues(t) \cup {BigV(t, 2, -1), BigV(t, -2, 0)}
        ELSE NewValues(t)

Literals(t) == {Nullable(v, valid, present) :
                   v \in ObsValues(t), valid \in BOOLEAN, present \in BOOLEAN}

InitObs ==
    /\ T \in ObsTypes
    /\ n \in Literals(T)
    /\ m = [n EXCEPT !.Present = ~n.Present]
    /\ prev = n
    /\ last = Call("init", TokNull, Nil)
    /\ err = NoError
    /\ errm = NoError
    /\ IdleDoc
    /\ IdleObs
    /\ IdleBuf

\* data, _ := n.MarshalJSON(), and the same on m
ObsMarshalJSON ==
    /\ T \in JsonTypes
    /\ res' = Obs(MarshalJSONOp(n), Nil, NoError, FALSE)
    /\ resm' = Obs(MarshalJSONOp(m), Nil, NoError, FALSE)
    /\ last' = Call("MarshalJSON", TokNull, Nil)
    /\ UNCHANGED <<T, bufvars, n, prev, err, m, errm, docvars>>

\* v, err := n.Value(), and the same on m
ObsValue ==
    /\ res' = ObsOfValue(ValueOp(n))
    /\ resm' = ObsOfValue(ValueOp(m))
    /\ last' = Call("Value", TokNull, Nil)
    /\ UNCHANGED <<T, bufvars, n, prev, err, m, errm, docvars>>

\* the text n.MarshalJSON() returned is decoded into a fresh Nullable[T],
\* which is then encoded: var m Nullable[T]; errm := m.UnmarshalJSON(data);
\* data2, _ := m.MarshalJSON()
ObsRoundTrip ==
    /\ last.op = "MarshalJSON"
    /\ ReturnsOnSecond(UnmarshalJSONOp(DefaultNullable(T), T, res.tok))
    /\ resm' = Obs(MarshalJSONOp(m'), Nil, NoError, FALSE)
    /\ last' = Call("RoundTrip", res.tok, Nil)
    /\ UNCHANGED <<T, bufvars, n, prev, err, res, docvars>>

\* v := n.OrElse(defaultVal), and the same on m
ObsOrElse(defaultVal) ==
    /\ res' = Obs(TokNull, OrElseOp(n, defaultVal), NoError, FALSE)
    /\ resm' = Obs(TokNull, OrElseOp(m, defaultVal), NoError, FALSE)
    /\ last' = Call("OrElse", TokNull, defaultVal)
    /\ UNCHANGED <<T, bufvars, n, prev, err, m, errm, docvars>>

NextObs ==
    \/ ObsMarshalJSON
    \/ ObsValue
    \/ ObsRoundTrip
    \/ \E d \in ObsValues(T) : ObsOrElse(d)

SpecObs == InitObs /\ [][NextObs]_vars

-----------------------------------------------------------------------------
(* A driver that hands Scan a []byte of its own buffer and writes the next  *)
(* row into the same buffer afterwards (database/sql: the memory of a       *)
(* []byte given to a Scanner is owned by the driver).  A Go slice is a      *)
(* reference to its array: a slice stored as it came reads the array's      *)
(* current bytes.                                                           *)

BufTypes == {"bytes", "string", "float64", "testValuerScannerStruct"}

\* the bytes the driver writes: '1' and 'a'
BufBytes == {49, 97}

\* the receiver keeps the slice it was given: convertToType returns
\* value.(T) for a value of type T itself, and testValuerScannerStruct.Scan
\* stores t.b = v; a conversion to a string or a parsed number copies
SharesArray(t, value) ==
    /\ value # Nil /\ value.t = "bytes"
    /\ t = "bytes" \/ TypeInfo[t].scanner

InitBuf ==
    /\ T \in BufTypes
    /\ n = DefaultNullable(T)
    /\ prev = n
    /\ last = Call("init", TokNull, Nil)
    /\ err = NoError
    /\ m = n
    /\ errm = NoError
    /\ IdleDoc
    /\ IdleObs
    /\ buf \in Texts \ {StrEmpty}
    /\ shared = FALSE

\* err := n.Scan(b), b the driver's buffer
BufScan ==
    /\ Returns(ScanOp(n, T, BytesV(buf)))
    /\ prev' = n
    /\ last' = Call("Scan", TokNull, BytesV(buf))
    /\ shared' = SharesArray(T, BytesV(buf))
    /\ UNCHANGED <<T, buf, m, errm, docvars, obsvars>>

\* err := n.Scan(nil), a NULL column: n.Val = zeroValue[T]()
BufScanNil ==
    /\ Returns(ScanOp(n, T, Nil))
    /\ prev' = n
    /\ last' = Call("Scan", TokNull, Nil)
    /\ shared' = FALSE
    /\ UNCHANGED <<T, buf, m, errm, docvars, obsvars>>

\* the driver writes byte c at position k of its buffer: b[k] = c
BufOverwrite(k, c) ==
    /\ buf[k] # c
    /\ buf' = [buf EXCEPT ![k] = c]
    /\ n' = (IF shared THEN [n EXCEPT !.Val.s = buf'] ELSE n)
    /\ prev' = n
    /\ last' = Call("Overwrite", TokNull, BytesV(buf'))
    /\ UNCHANGED <<T, shared, err, m, errm, docvars, obsvars>>

NextBuf ==
    \/ BufScan
    \/ BufScanNil
    \/ \E k \in 1..Len(buf), c \in BufBytes : BufOverwrite(k, c)

SpecBuf == InitBuf /\ [][NextBuf]_vars

-----------------------------------------------------------------------------
(* Claims *)

IsCall == last.op \in {"Scan", "UnmarshalJSON"}

\* C1: from a default-constructed Nullable or NewNullable(v), no sequence of
\* Scan and UnmarshalJSON calls, succeeding or failing, reaches
\* (Present = false, Valid = true).
C1_NeverValidAndAbsent == ~(n.Present = FALSE /\ n.Valid = TRUE)

\* an absent receiver was decoded into, and is now valid
C1_Witness ==
    /\ last.op = "UnmarshalJSON"
    /\ prev = DefaultNullable(T)
    /\ n.Valid
    /\ n.Present

\* C2: UnmarshalJSON with the null literal returns no error and leaves
\* Present = true, Valid = false and Val = zero(T), whatever the receiver
\* held before.
C2_NullLiteralResets ==
    (last.op = "UnmarshalJSON" /\ last.tok = TokNull)
        => /\ err = NoError
           /\ n = Nullable(zeroValue(T), FALSE, TRUE)

\* C3: Scan(nil) returns nil and leaves Present = true, Valid = false and
\* Val = zero(T), for every T (a custom scanner is not consulted) and every
\* prior state.
C3_ScanNilResets ==
    (last.op = "Scan" /\ last.val = Nil)
        => /\ err = NoError
           /\ n = Nullable(zeroValue(T), FALSE, TRUE)

\* Scan(nil) on a valid receiver holding a non-zero value of a type with a
\* custom scanner
C3_Witness ==
    /\ last.op = "Scan"
    /\ last.val = Nil
    /\ TypeInfo[T].scanner
    /\ prev.Valid
    /\ prev.Val # zeroValue(T)

\* C4: when UnmarshalJSON returns an error, Valid is false afterwards, also
\* for a receiver that was valid before the call.
C4_DecodeErrorLeavesInvalid ==
    (last.op = "UnmarshalJSON" /\ err # NoError) => n.Valid = FALSE

\* C5: every Scan or UnmarshalJSON call leaves Present = true, whether it
\* succeeds or fails, so an instance once called on is never absent again.
C5_CallLeavesPresent == IsCall => n.Present = TRUE

\* a failing call on an absent receiver
C5_Witness ==
    /\ IsCall
    /\ err # NoError
    /\ prev.Present = FALSE
    /\ n.Present

\* C6: a Scan or UnmarshalJSON call overwrites the prior state in full: two
\* receivers in different states given the same call end in the same state
\* with the same result.
C6_FullOverwrite == IsCall => (n = m /\ err = errm)

\* C7: in every state reachable by Scan and UnmarshalJSON calls from a
\* default-constructed Nullable or NewNullable(v), Valid = false implies
\* Val = zero(T).
C7_InvalidHoldsZero == (n.Valid = FALSE) => n.Val = zeroValue(T)

\* C8 as stated: after any sequence of document decodes into one structure,
\* a field is Present iff its key was addressed in the most recent decode.
C8_PresentIffInLastDecode ==
    decodes > 0 => \A f \in FieldSet : person[f].Present <=> f \in Reached(doc)

\* C8 amended: a field is Present iff its key was addressed in at least one
\* of the decodes since the structure was constructed; a decode that does
\* not address the key leaves the field as it was.
C8_PresentIffInSomeDecode ==
    \A f \in FieldSet : person[f].Present <=> f \in addressed

\* a second document lacks a key the first one had
C8_Witness ==
    /\ decodes = 2
    /\ \E f \in FieldSet : f \in addressed /\ f \notin Reached(doc) /\ person[f].Valid

\* the value a non-null token denotes
TokenIs(tok, val) == val.i = tok.i /\ val.f = tok.f /\ val.s = tok.s

\* C9: a document decoded into a fresh structure leaves each field in the
\* state matching the document (key absent: absent and zero; null: present
\* and not valid; a value: present, valid, that value), and encoding the
\* structure without omit-zero emits null for the absent and the null field
\* and the value for the valid one.
C9_FreshDecodeThenEncode ==
    (decodes = 1 /\ docerr = NoError) =>
        \A f \in FieldSet :
            /\ doc[f] = Missing => person[f] = DefaultNullable(FieldType[f])
            /\ doc[f] = TokNull => (person[f].Present /\ ~person[f].Valid)
            /\ doc[f] \notin {Missing, TokNull} =>
                   /\ person[f].Present
                   /\ person[f].Valid
                   /\ person[f].Val.t = FieldType[f]
                   /\ TokenIs(doc[f], person[f].Val)
            /\ out # NoOut =>
                   out[f] = IF doc[f] \in {Missing, TokNull} THEN TokNull ELSE doc[f]

\* a fresh structure decoded from a document with a value, a null and a
\* missing key, and encoded
C9_Witness ==
    /\ decodes = 1
    /\ docerr = NoError
    /\ out # NoOut
    /\ doc["age"] \notin {Missing, TokNull}
    /\ doc["address"] = TokNull
    /\ doc["has_pet"] = Missing

\* C10: NewNullable(v) is valid, present and holds v.
C10_NewNullable ==
    last.op = "NewNullable" => (n.Valid /\ n.Present /\ n.Val = last.val)

\* NewNullable of a non-zero value
C10_Witness == last.op = "NewNullable" /\ n.Val # zeroValue(T)

\* C11: MarshalJSON emits the null literal when Valid is false and T's own
\* encoding of Val when Valid is true; the text depends on (Valid, Val) only:
\* a second Nullable with the same Valid and Val emits the same text,
\* whatever its Present.
C11_MarshalIgnoresPresent ==
    last.op = "MarshalJSON" =>
        /\ ~n.Valid => res.tok = TokNull
        /\ n.Valid => res.tok = JsonEncode(n.Val)
        /\ m.Valid = n.Valid /\ m.Val = n.Val => resm.tok = res.tok

\* a valid receiver that is not marked present has emitted its value, and so
\* has its twin that is marked present
C11_Witness ==
    /\ last.op = "MarshalJSON"
    /\ n.Valid /\ ~n.Present
    /\ m.Valid /\ m.Val = n.Val /\ m.Present
    /\ res.tok # TokNull /\ resm.tok = res.tok

\* C12: IsZero returns true iff Present is false, whatever Valid and Val are;
\* so under omit-zero encoding a field is left out iff no decode addressed it,
\* while an explicit null and a valid zero value are both emitted.
C12_OmitZeroIffNeverAddressed ==
    /\ \A f \in FieldSet : \A nn \in Literals(FieldType[f]) :
           IsZeroOp(nn) = ~nn.Present
    /\ outz # NoOutz =>
           \A f \in FieldSet :
              /\ outz[f] = Missing <=> f \notin addressed
              /\ person[f].Present /\ ~person[f].Valid => outz[f] = TokNull
              /\ person[f].Present /\ person[f].Valid
                    => outz[f] = JsonEncode(person[f].Val)

\* one field left out, an explicit null emitted as null and a valid 0 emitted
C12_Witness ==
    /\ outz # NoOutz
    /\ outz["has_pet"] = Missing
    /\ person["address"].Present /\ ~person["address"].Valid
    /\ outz["address"] = TokNull
    /\ person["age"].Valid /\ person["age"].Val = zeroValue("int")
    /\ outz["age"] = TokNum(0, 0)

\* C13: Value() on a Nullable with Valid = false returns (nil, nil) for every
\* T, every stored Val and both values of Present; neither T's valuer nor the
\* conversion to a driver value is consulted.
C13_ValueOfInvalidIsNil ==
    last.op = "Value" =>
        /\ ~n.Valid => res.val = Nil /\ res.err = NoError
        /\ ~m.Valid => resm.val = Nil /\ resm.err = NoError

\* an invalid Nullable whose stored Val has a valuer that returns an error
C13_Witness ==
    /\ last.op = "Value"
    /\ ~n.Valid
    /\ TypeInfo[T].valuer /\ ValuerValue(n.Val).err # NoError
    /\ res.val = Nil /\ res.err = NoError

\* C14: round trip: a token produced by MarshalJSON of some Nullable (null,
\* or T's encoding of a value), decoded by UnmarshalJSON into a fresh
\* Nullable and encoded again by MarshalJSON, comes out as the same token.
C14_RoundTrip ==
    last.op = "RoundTrip" =>
        /\ last.tok = MarshalJSONOp(n)
        /\ errm = NoError
        /\ resm.tok = last.tok

\* the encoding of a valid value went round
C14_Witness ==
    /\ last.op = "RoundTrip"
    /\ n.Valid /\ last.tok = JsonEncode(n.Val) /\ last.tok # TokNull
    /\ m.Valid /\ m.Present
    /\ resm.tok = last.tok

\* C15: when *T implements sql.Scanner and the input is not nil, Scan
\* delegates to it: on success Valid and Present are true; on failure the
\* scanner's error is returned unchanged and Valid is false afterwards, for
\* every prior state of the receiver.
C15_ScannerFailureLeavesInvalid ==
    (last.op = "Scan" /\ TypeInfo[T].scanner /\ last.val # Nil) =>
        /\ err = ScannerScan(prev.Val, last.val).err
        /\ err = NoError => n.Valid /\ n.Present
        /\ err # NoError => ~n.Valid

\* C16: for T without a custom scanner and an input that is not nil, Valid
\* after a Scan that returns equals (returned error = nil); when no conversion
\* rule matches the input, Scan returns exactly ErrUnsupportedConversion and
\* leaves Present = true, Valid = false and Val = zero(T).
C16_NoRuleIsUnsupported ==
    (last.op = "Scan" /\ ~TypeInfo[T].scanner /\ last.val # Nil /\ err # Panic) =>
        /\ n.Valid = (err = NoError)
        /\ NoRule(T, last.val) =>
              /\ err = ErrUnsupportedConversion
              /\ n = Nullable(zeroValue(T), FALSE, TRUE)

\* a slice of int64 scanned into a string-typed Nullable that was valid
C16_Witness ==
    /\ last.op = "Scan"
    /\ T = "string" /\ last.val.t = "int64s"
    /\ prev.Valid /\ prev.Val # zeroValue(T)
    /\ err = ErrUnsupportedConversion
    /\ n = Nullable(zeroValue(T), FALSE, TRUE)

\* whether the int64 value fits in 8 bits
FitsInt8(value) ==
    value.h = 0 /\ value.i >= MinSigned(8) /\ value.i <= MaxSigned(8)

\* C17 (as stated): an int64 scanned into Nullable[int8] succeeds (nil error,
\* Valid, Val equal to the input) when the value fits in 8 bits and fails
\* with ErrUnsupportedConversion (Valid = false) when it does not.
C17_Int64IntoInt8Checked ==
    (last.op = "Scan" /\ T = "int8" /\ last.val.t = "int64") =>
        IF FitsInt8(last.val)
        THEN err = NoError /\ n.Valid /\ n.Val = IntV("int8", last.val.i)
        ELSE err = ErrUnsupportedConversion /\ ~n.Valid

\* C17 (amended): an int64 scanned into Nullable[int8] returns nil and leaves
\* Valid = true for every input; Val is the input when it fits in 8 bits and
\* otherwise the int8 congruent to the input modulo 2^8 (128 becomes -128).
C17_Int64IntoInt8Wraps ==
    (last.op = "Scan" /\ T = "int8" /\ last.val.t = "int64") =>
        /\ err = NoError /\ n.Valid /\ n.Present
        /\ n.Val.t = "int8" /\ n.Val.h = 0 /\ n.Val.f = 0
        /\ n.Val.i >= MinSigned(8) /\ n.Val.i <= MaxSigned(8)
        /\ (n.Val.i - last.val.i) % (2 ^ 8) = 0
        /\ FitsInt8(last.val) => n.Val.i = last.val.i

\* int64(128) scanned into Nullable[int8]: nil error, Valid, Val = -128
C17_Witness ==
    /\ last.op = "Scan" /\ T = "int8"
    /\ last.val = IntV("int64", MaxSigned(8) + 1)
    /\ err = NoError /\ n.Valid
    /\ n.Val = IntV("int8", MinSigned(8))

IsIntegerKind(kind) == isNumeric(kind) /\ ~isFloatKind(kind)

\* C18: an integer of any integer kind and width scanned into Nullable[bool]:
\* 0 yields Val = false and 1 yields Val = true, each with nil error and
\* Valid = true; every other integer, negative or greater than 1, however
\* large, returns an error and leaves Valid = false.
C18_IntegerIntoBool ==
    (last.op = "Scan" /\ T = "bool" /\ last.val # Nil
        /\ IsIntegerKind(TypeInfo[last.val.t].kind)) =>
        IF last.val.h = 0 /\ last.val.i \in {0, 1}
        THEN err = NoError /\ n.Valid /\ n.Val = BoolV(last.val.i = 1)
        ELSE err # NoError /\ ~n.Valid

\* math.MaxUint64 scanned into a Nullable[bool] that was valid
C18_Witness ==
    /\ last.op = "Scan" /\ T = "bool"
    /\ last.val = BigV("uint64", 4, -1)
    /\ prev.Valid
    /\ err = ErrUnsupportedConversion /\ ~n.Valid

\* C19: a byte sequence scanned into a string-typed Nullable returns nil and
\* yields Valid = true with Val the text formed by those bytes in order; the
\* empty sequence yields the empty string with Valid = true, neither null
\* nor an error.
C19_BytesIntoString ==
    (last.op = "Scan" /\ TypeInfo[T].kind = Kind.String /\ last.val.t = "bytes") =>
        /\ err = NoError
        /\ n.Valid /\ n.Present
        /\ n.Val = StrV(T, last.val.s)

\* the empty byte sequence scanned over a valid, non-empty string
C19_Witness ==
    /\ last.op = "Scan" /\ T = "string"
    /\ last.val = BytesV(StrEmpty)
    /\ prev.Valid /\ prev.Val # StrV(T, StrEmpty)
    /\ err = NoError /\ n.Valid /\ n.Val = StrV(T, StrEmpty)

\* C20: Value() on a valid Nullable of an unsigned integer kind (uint, uint8,
\* uint16, uint32, uint64): a value below 2^63 yields the int64 of the same
\* numeric value and nil error; a value at or above 2^63 yields a nil value
\* and an error, never a wrapped negative int64.
C20_UnsignedValue ==
    (last.op = "Value" /\ n.Valid
        /\ T \in {"uint", "uint8", "uint16", "uint32", "uint64"}) =>
        IF n.Val.h < 2 \/ (n.Val.h = 2 /\ n.Val.i < 0)
        THEN /\ res.err = NoError
             /\ res.val = BigV("int64", n.Val.h, n.Val.i)
        ELSE /\ res.val = Nil
             /\ res.err # NoError

\* Value() of a valid Nullable[uint64] holding 1 << 63
C20_Witness ==
    /\ last.op = "Value" /\ n.Valid
    /\ T = "uint64" /\ n.Val = BigV("uint64", 2, 0)
    /\ res.val = Nil /\ res.err = ErrTooLarge

\* C21: for a valid Nullable whose T implements driver.Valuer, Value() returns
\* exactly the (value, error) pair of T's own Value method: the value is not
\* converted and the error is not wrapped.  testValuerScannerStruct returns
\* (b, nil) and customValuer returns (value, err).
C21_ValuerVerbatim ==
    (last.op = "Value" /\ n.Valid /\ TypeInfo[T].valuer) =>
        /\ T = "testValuerScannerStruct" =>
              /\ res.val = GoVal("bytes", 0, 0, n.Val.s, n.Val.nil)
              /\ res.err = NoError
        /\ T = "customValuer" =>
              /\ res.val = (IF n.Val.nil THEN Nil ELSE StrV("string", n.Val.s))
              /\ res.err = (IF n.Val.i = 1 THEN ErrValuer ELSE NoError)

\* a valid Nullable[customValuer] whose Value method fails
C21_Witness ==
    /\ last.op = "Value" /\ n.Valid
    /\ T = "customValuer" /\ n.Val.i = 1
    /\ res.val = Nil /\ res.err = ErrValuer

\* C22: OrElse(d) returns Val when Valid is true and d when Valid is false;
\* when Valid is false the result depends neither on the stored Val nor on
\* Present.
C22_OrElse ==
    last.op = "OrElse" =>
        /\ n.Valid => res.val = n.Val
        /\ ~n.Valid => res.val = last.val
        /\ m.Valid => resm.val = m.Val
        /\ ~m.Valid => resm.val = last.val

\* an invalid Nullable that stores a value other than zero and other than d
C22_Witness ==
    /\ last.op = "OrElse"
    /\ ~n.Valid /\ n.Val # zeroValue(T) /\ n.Val # last.val
    /\ ~m.Valid /\ m.Val = n.Val /\ m.Present # n.Present
    /\ res.val = last.val /\ resm.val = last.val

\* C23: for T a user-defined type whose underlying kind is string (type
\* Status string), scanning text delivered by the driver, as a string value
\* or as a byte sequence, returns nil and yields Valid = true with Val equal
\* to that text.
C23_TextIntoNamedString ==
    (last.op = "Scan" /\ T = "Status" /\ last.val.t \in {"string", "bytes"}) =>
        /\ err = NoError
        /\ n.Valid
        /\ n.Val = StrV(T, last.val.s)

\* C24: the input conversion is total: for every input that is not nil and
\* every target type T, user-defined types whose underlying kind is bool or
\* float included, Scan returns nil or an error and never aborts.
C24_ScanNeverAborts ==
    last.op = "Scan" => err # Panic

\* the number v is a value of the numeric type t
Representable(v, t) ==
    LET tk   == TypeInfo[t].kind
        bits == TypeInfo[t].bits
    IN  IF isFloatKind(tk) THEN v.h = 0 \/ (v.i = 0 /\ v.f = 0)
        ELSE /\ v.f = 0
             /\ IF bits < 32
                THEN /\ v.h = 0
                     /\ IF isUnsignedKind(tk) THEN v.i >= 0 /\ v.i < 2 ^ bits
                        ELSE v.i >= MinSigned(bits) /\ v.i <= MaxSigned(bits)
                ELSE IF isUnsignedKind(tk)
                THEN ~IsNegative(v.h, v.i) /\ (v.h < 4 \/ (v.h = 4 /\ v.i < 0))
                ELSE ~AtLeast2p63(v.h, v.i) /\ ~Below2p63Neg(v.h, v.i)

\* C25: for every input of numeric kind and every target T of numeric kind,
\* user-defined numeric types included, Scan returns nil and sets Valid with
\* Val the numeric conversion of the input to T: a value of T; equal to the
\* input when the input is representable in T; for an integer target the
\* integer part of a float input, rounded toward zero, and an integer input
\* modulo 2^bits.
C25_NumericIntoNumeric ==
    (last.op = "Scan" /\ isNumeric(TypeInfo[T].kind) /\ last.val # Nil
        /\ isNumeric(TypeInfo[last.val.t].kind)) =>
        /\ err = NoError
        /\ n.Valid /\ n.Present
        /\ n.Val.t = T /\ Representable(n.Val, T)
        /\ Representable(last.val, T) =>
              n.Val.h = last.val.h /\ n.Val.i = last.val.i /\ n.Val.f = last.val.f
        /\ (~isFloatKind(TypeInfo[T].kind) /\ last.val.f # 0) =>
              /\ 10 * n.Val.i - (10 * last.val.i + last.val.f) \in -9..9
              /\ 10 * n.Val.i * (10 * last.val.i + last.val.f) >= 0
        /\ (~isFloatKind(TypeInfo[T].kind) /\ last.val.f = 0) =>
              IF TypeInfo[T].bits < 32
              THEN (n.Val.i - last.val.i) % (2 ^ TypeInfo[T].bits) = 0
              ELSE n.Val.i = last.val.i /\ (n.Val.h - last.val.h) % 4 = 0

\* int64(1) scanned into a Nullable of the user-defined float type
C25_Witness ==
    /\ last.op = "Scan" /\ T = "MyCustomFloat32"
    /\ last.val = IntV("int64", 1)
    /\ err = NoError /\ n.Valid
    /\ n.Val = GoVal(T, 1, 0, <<>>, FALSE)

\* the texts of the model that are floating-point literals: "1" and "1.5"
IsFloatLiteral(s) == s \in {StrOne, StrOne5}

\* C26: scanning a byte sequence into Nullable[float32] or Nullable[float64]:
\* the empty sequence and every text that is not a floating-point literal
\* return an error and leave Present = true, Valid = false and Val = 0; a
\* valid literal returns nil with Valid = true (and Val the number it reads).
C26_BytesIntoFloat ==
    (last.op = "Scan" /\ T \in {"float32", "float64"} /\ last.val.t = "bytes") =>
        IF IsFloatLiteral(last.val.s)
        THEN /\ err = NoError
             /\ n.Present /\ n.Valid
             /\ n.Val = (IF last.val.s = StrOne THEN GoVal(T, 1, 0, <<>>, FALSE)
                                                ELSE GoVal(T, 1, 5, <<>>, FALSE))
        ELSE /\ err \notin {NoError, Panic}
             /\ n.Present /\ ~n.Valid
             /\ n.Val = GoVal(T, 0, 0, <<>>, FALSE)

\* []byte("1a") scanned into a Nullable[float32] that held a valid 1.5
C26_Witness ==
    /\ last.op = "Scan" /\ T = "float32"
    /\ last.val = BytesV(StrOneA)
    /\ prev.Valid /\ prev.Val = GoVal(T, 1, 5, <<>>, FALSE)
    /\ err = ErrUnsupportedConversion
    /\ n.Present /\ ~n.Valid /\ n.Val = GoVal(T, 0, 0, <<>>, FALSE)

\* the input is text that does not parse, scanned into float32 / float64
IsParseFailure ==
    /\ T \in {"float32", "float64"}
    /\ last.val.t = "bytes" /\ last.val.s # <<>> /\ ~IsFloatLiteral(last.val.s)

\* the input is an integer other than 0 and 1, scanned into bool
IsNonBinaryIntoBool ==
    /\ T = "bool"
    /\ last.val # Nil /\ IsIntegerKind(TypeInfo[last.val.t].kind)
    /\ ~(last.val.h = 0 /\ last.val.i \in {0, 1})

\* C27: a Scan that fails on unparseable numeric text (bytes into a float
\* target) or on an integer other than 0 and 1 (into a bool target) reports
\* an error other than the shared ErrUnsupportedConversion, and the shared
\* error is returned only when no coercion rule matches the input / target
\* pair.
C27_SpecificErrors ==
    last.op = "Scan" =>
        /\ (IsParseFailure \/ IsNonBinaryIntoBool) =>
              err \notin {NoError, ErrUnsupportedConversion}
        /\ (err = ErrUnsupportedConversion /\ ~TypeInfo[T].scanner) =>
              NoRule(T, last.val)

\* the types a database driver accepts, and nil
DriverTypes == {"nil", "int64", "float64", "bool", "string", "bytes", "time"}

\* C28: Value() of a valid Nullable whose T has no Value method of its own:
\* a signed integer of any width gives the int64 of the same number, a float
\* the float64 of the same number, a bool, a string, a []byte and a time.Time
\* give themselves, a nil pointer gives (nil, nil), a pointer that is not nil
\* gives what its pointee gives, and every other kind (a slice of another
\* element type, another struct, a map) gives a nil value and an error.  A
\* result without error is nil or an int64, float64, bool, string, []byte or
\* time.Time.
C28_DriverValue ==
    (last.op = "Value" /\ n.Valid /\ ~TypeInfo[T].valuer) =>
        LET k == TypeInfo[T].kind
            v == n.Val
        IN  /\ k \in {Kind.Int, Kind.Int8, Kind.Int16, Kind.Int32, Kind.Int64} =>
                  res.err = NoError /\ res.val = BigV("int64", v.h, v.i)
            /\ k \in {Kind.Float32, Kind.Float64} =>
                  /\ res.err = NoError /\ res.val.t = "float64"
                  /\ res.val.h = v.h /\ res.val.i = v.i /\ res.val.f = v.f
            /\ k = Kind.Bool =>
                  res.err = NoError /\ res.val = [v EXCEPT !.t = "bool"]
            /\ k = Kind.String =>
                  res.err = NoError /\ res.val = [v EXCEPT !.t = "string"]
            /\ T \in {"bytes", "time"} => res.err = NoError /\ res.val = v
            /\ (k = Kind.Pointer /\ v.nil) => res.err = NoError /\ res.val = Nil
            /\ (T = "ptr_int" /\ ~v.nil) =>
                  res.err = NoError /\ res.val = BigV("int64", v.h, v.i)
            /\ (k = Kind.Map \/ (k = Kind.Slice /\ T # "bytes")
                    \/ (k = Kind.Struct /\ T # "time")) =>
                  res.val = Nil /\ res.err # NoError
            /\ res.err = NoError => res.val.t \in DriverTypes
            /\ res.err # NoError => res.val = Nil

\* Value() of a valid Nullable[*int] that points to 1
C28_Witness ==
    /\ last.op = "Value" /\ n.Valid
    /\ T = "ptr_int" /\ ~n.Val.nil /\ n.Val.i = 1
    /\ res.val = IntV("int64", 1) /\ res.err = NoError

\* C30: only integers are coerced to bool: Scan of a floating-point input
\* into Nullable[bool] returns ErrUnsupportedConversion and leaves
\* Valid = false.
C30_FloatIntoBoolFails ==
    (last.op = "Scan" /\ T = "bool" /\ last.val # Nil
        /\ isFloatKind(TypeInfo[last.val.t].kind)) =>
        /\ err = ErrUnsupportedConversion
        /\ ~n.Valid

\* C29: a Nullable owns its value: after Scan stored a []byte input into a
\* Nullable[[]byte], a later write to the input buffer leaves the Nullable's
\* Val (and Valid, Present) as they were.
C29_OwnsValue ==
    (last.op = "Overwrite" /\ T = "bytes") => n = prev

=============================================================================
